---- MODULE Spec2Model ----
(***************************************************************************)
(* Flux: the fixed-timestep clock of Flux::compute, the per-tick command   *)
(* sequence it records, and the double-buffered line state of the Drawer.  *)
(*                                                                         *)
(* Times are fixed-point: the f32 seconds of the source are counted in     *)
(* units of 1/UnitsPerSecond s, the f64 timestamps in milliseconds.  The   *)
(* line-noise offsets are counted in units of 1/OffsetScale.  The GPU      *)
(* kernels are opaque: a LineState entry is the number of place_lines      *)
(* kernel applications it has been through since it was zero-initialised.  *)
(***************************************************************************)
EXTENDS Integers, Sequences, FiniteSets

\* ------------------------------------------------------------------ bounds

\* Timestamps offered to a tick: 0 .. MaxTick units of host/video time.
MaxTick == 4
\* Ticks (Flux::compute calls) explored in one behaviour.
MaxFrames == 3

\* -------------------------------------------------------------- constants

\* Resolution of the fixed-point seconds (f32 in the source).
UnitsPerSecond == 20

MsPerUnit == 1000 \div UnitsPerSecond

\* flux.rs: const MAX_ELAPSED_TIME: f32 = 1000.0;
MAX_ELAPSED_TIME == 1000 * UnitsPerSecond
\* flux.rs: const MAX_FRAME_TIME: f32 = 1.0 / 10.0;
MAX_FRAME_TIME == UnitsPerSecond \div 10

\* settings.rs: enum Mode
Modes == {"Normal", "DebugNoise", "DebugFluid", "DebugPressure", "DebugDivergence"}

\* Values of Settings::fluid_timestep offered to new/update, in units.
FluidTimesteps == {1, 3}

\* Values of Settings::grid_spacing offered to new/update.
GridSpacings == {800}

\* The settings offered to new/update: every fluid_timestep in Normal mode,
\* every debug mode with the smallest fluid_timestep.
SettingsSet ==
    {s \in [mode : Modes, fluid_timestep : FluidTimesteps, grid_spacing : GridSpacings,
            color_scheme : {"Peacock"}] :
        s.mode = "Normal" \/ s.fluid_timestep = 1}

Timestamps == {k * MsPerUnit : k \in 0..MaxTick}

\* Logical sizes offered to new/resize.
LogicalSizes == {<<400, 400>>, <<1600, 800>>}

Min(a, b) == IF a <= b THEN a ELSE b
Max(a, b) == IF a >= b THEN a ELSE b

VARIABLES
    settings,            \* Flux::settings
    last_timestamp,      \* Flux::last_timestamp, ms
    elapsed_time,        \* Flux::elapsed_time, units
    fluid_frame_time,    \* Flux::fluid_frame_time, units
    drawer_settings,     \* Drawer::settings
    logical_size,        \* Drawer::logical_width, Drawer::logical_height
    grid,                \* Drawer::grid
    line_state_buffers,  \* Drawer::line_state_buffers
    line_uniforms,       \* Drawer::line_uniforms
    encoder,             \* commands recorded by the most recent call
    frames,              \* number of ticks so far
    twin,                \* a second Flux, fed the same calls in another mode
    fluid,               \* fluid.rs Fluid: velocity_textures, divergence_texture
    fluid_call,          \* the most recent call on the Fluid
    fluid_context,       \* Flux::fluid, the fluid field of flux.rs
    noise_generator,     \* Flux::noise_generator
    free_call,           \* the most recent call of a free function: args, result
    physical_size,       \* Drawer::physical_width, Drawer::physical_height
    basepoint_buffer,    \* Drawer::basepoint_buffer
    color_texture,       \* Drawer::color_texture
    color_mode,          \* Drawer::line_uniforms.data.color_mode
    outcome,             \* how the most recent fallible call ended
    event_loop,          \* the desktop event loop: control_flow, handler, log
    pc,                  \* the position inside a Flux::compute call that runs in steps
    uniform_source       \* the size and settings the line uniforms were derived from

clock == <<last_timestamp, elapsed_time, fluid_frame_time>>
drawer == <<drawer_settings, logical_size, grid, line_state_buffers, line_uniforms>>
\* The state that only the specifications of single components use.
host == <<free_call, pc, uniform_source, physical_size, basepoint_buffer, color_texture, color_mode, outcome,
          event_loop>>
aux == <<twin, fluid, fluid_call, fluid_context, noise_generator, host>>
\* The state of Flux and its Drawer.
flux == <<settings, clock, drawer, encoder, frames>>
vars == <<flux, aux>>

\* --------------------------------------------------------------- commands

Cmd(op, step, arg, reads, writes) ==
    [op |-> op, step |-> step, arg |-> arg, reads |-> reads, writes |-> writes]

\* ------------------------------------------------------------------- grid

\* The zeroed LineState pushed per cell by Grid::new.
ZeroLineState == 0

\* The number of binary digits of a natural number.
RECURSIVE BitLength(_)
BitLength(x) == IF x = 0 THEN 0 ELSE 1 + BitLength(x \div 2)

\* The f32 quotient a / b of two integers below 2^23, b > 0, by long division
\* until it is exact or has 24 binary digits: a mantissa n, rounded to
\* nearest-even, and the exponent k of the value n / 2^k.
RECURSIVE F32Quotient(_, _, _, _)
F32Quotient(n, r, k, b) ==
    IF n >= 2^23 \/ r = 0
    THEN [n |-> IF 2 * r > b \/ (2 * r = b /\ n % 2 = 1) THEN n + 1 ELSE n,
          k |-> k]
    ELSE F32Quotient(2 * n + (IF 2 * r >= b THEN 1 ELSE 0), (2 * r) % b, k + 1, b)

F32Div(a, b) == F32Quotient(a \div b, a % b, 0, b)

\* f32::floor of the f32 product q * c, c an integer below 2^18: the product
\* of the mantissa by c, held in two 12-bit halves, is rounded to 24 binary
\* digits (nearest-even) and then floored.
F32MulFloor(q, c) ==
    LET low == (q.n % 4096) * c
        hi == (q.n \div 4096) * c + low \div 4096
        lo == low % 4096
        dropped == Max(0, BitLength(hi) - 12)
        kept == IF dropped <= 12 THEN hi * 2^(12 - dropped) + lo \div 2^dropped
                ELSE hi \div 2^(dropped - 12)
        rest == IF dropped <= 12 THEN lo % 2^dropped
                ELSE (hi % 2^(dropped - 12)) * 4096 + lo
        up == dropped > 0 /\ (2 * rest > 2^dropped \/ (2 * rest = 2^dropped /\ kept % 2 = 1))
        m == IF up THEN kept + 1 ELSE kept
    IN  IF dropped >= q.k THEN m * 2^(dropped - q.k) ELSE m \div 2^(q.k - dropped)

\* fn clamp_logical_size(width, height), for width, height >= 1, in f32 as
\* the code computes it.  Of the quotients 800.0 / width and 800.0 / height
\* the larger is the one with the smaller divisor (f32 division is monotone),
\* and .max(1.0) replaces it exactly when that divisor is 800 or more.
clamp_logical_size(width, height) ==
    LET minimum_dimension == 800
        smaller == Min(width, height)
        scale == IF smaller >= minimum_dimension
                 THEN [n |-> 1, k |-> 0]
                 ELSE F32Div(minimum_dimension, smaller)
    IN  << F32MulFloor(scale, width), F32MulFloor(scale, height) >>

\* Denominator of the scaling ratio: ScalingRatio::new divides by 171.0.
ScalingRatioUnit == 171

\* ScalingRatio::new, in units of 1/171.
ScalingRatioNew(columns, rows) ==
    << Max(columns, ScalingRatioUnit), Max(rows, ScalingRatioUnit) >>

\* Mutant: line_count is taken before columns and rows are incremented.
GridNewCountingFloors(width, height, grid_spacing) ==
    LET columns == width \div grid_spacing
        rows == IF width = 0 THEN 0 ELSE F32MulFloor(F32Div(height, width), columns)
        line_count == rows * columns
    IN  [columns |-> columns + 1,
         rows |-> rows + 1,
         line_count |-> line_count,
         scaling_ratio |-> ScalingRatioNew(columns + 1, rows + 1),
         basepoints |-> [i \in 1..(2 * (rows + 1) * (columns + 1)) |-> <<0, 1>>],
         line_state |-> [i \in 1..((rows + 1) * (columns + 1)) |-> ZeroLineState]]

\* Mutant: the rows are counted from the height as the columns are from the
\* width.
GridNewRowsFromHeight(width, height, grid_spacing) ==
    LET columns == width \div grid_spacing
        rows == height \div grid_spacing
        line_count == (rows + 1) * (columns + 1)
    IN  [columns |-> columns + 1,
         rows |-> rows + 1,
         line_count |-> line_count,
         scaling_ratio |-> ScalingRatioNew(columns + 1, rows + 1),
         basepoints |-> [i \in 1..(2 * line_count) |-> <<0, 1>>],
         line_state |-> [i \in 1..line_count |-> ZeroLineState]]

\* Mutant: the loops are nested the other way, u outside and v inside.
GridNewColumnMajor(width, height, grid_spacing) ==
    LET columns == width \div grid_spacing
        rows == IF width = 0 THEN 0 ELSE F32MulFloor(F32Div(height, width), columns)
        line_count == (rows + 1) * (columns + 1)
    IN  [columns |-> columns + 1,
         rows |-> rows + 1,
         line_count |-> line_count,
         scaling_ratio |-> ScalingRatioNew(columns + 1, rows + 1),
         basepoints |->
            [i \in 1..(2 * line_count) |->
                IF i % 2 = 1
                THEN << ((i - 1) \div 2) \div (rows + 1), columns >>
                ELSE << ((i - 1) \div 2) % (rows + 1), rows >>],
         line_state |-> [i \in 1..line_count |-> ZeroLineState]]

\* Grid::new.  width / grid_spacing is exact below 2^24; (height / width) *
\* columns is computed in f32; with width = 0 it is NaN, which `as u32` makes
\* 0.  A basepoint coordinate u * (1.0 / columns) is kept as the pair of u and
\* the divisor, the floored count.
GridNew(width, height, grid_spacing) ==
    LET columns == width \div grid_spacing
        rows == IF width = 0 THEN 0 ELSE F32MulFloor(F32Div(height, width), columns)
        line_count == (rows + 1) * (columns + 1)
    IN  [columns |-> columns + 1,
         rows |-> rows + 1,
         line_count |-> line_count,
         scaling_ratio |-> ScalingRatioNew(columns + 1, rows + 1),
         basepoints |->
            [i \in 1..(2 * line_count) |->
                IF i % 2 = 1
                THEN << ((i - 1) \div 2) % (columns + 1), columns >>
                ELSE << ((i - 1) \div 2) \div (columns + 1), rows >>],
         line_state |-> [i \in 1..line_count |-> ZeroLineState]]

\* ---------------------------------------------------------- line uniforms

\* Resolution of the fixed-point line-noise offsets.
OffsetScale == 10000
\* Mutant: the blending starts only at 6.0.
BlendThresholdLate == 6 * OffsetScale

\* const BLEND_THRESHOLD: f32 = 4.0;
BLEND_THRESHOLD == 4 * OffsetScale
\* const BASE_OFFSET: f32 = 0.0015;
BASE_OFFSET == (15 * OffsetScale) \div 10000

\* sin(0.010 * elapsed_time * TAU) in thousandths: one period is 100 s; each
\* half period is approximated by 4x(h - x) / (5h^2/4 - x(h - x)).
SinMilli(elapsed) ==
    LET period == 100 * UnitsPerSecond
        h == period \div 2
        p == elapsed % period
        x == IF p < h THEN p ELSE p - h
        bump == (4000 * x * (h - x)) \div ((5 * h * h) \div 4 - x * (h - x))
    IN  IF p < h THEN bump ELSE 0 - bump

\* let offset = BASE_OFFSET * perturb, perturb = 1.0 + 0.2 * sin(...)
NoiseOffset(elapsed) ==
    BASE_OFFSET + (BASE_OFFSET * 2 * SinMilli(elapsed) + 5000) \div 10000

\* LineUniforms::new: the crossfade starts at zero.
LineUniformsNew ==
    [line_noise_offset_1 |-> 0,
     line_noise_offset_2 |-> 0,
     line_noise_blend_factor |-> 0,
     delta_time |-> 0]

\* Mutant: the line uniforms are built anew, as by LineUniforms::new.
line_uniforms_rebuilt(lu, size, new_settings) == LineUniformsNew

\* LineUniforms::update: sets the fields derived from the size and the
\* settings, none of the crossfade fields.
line_uniforms_update(lu, size, new_settings) == lu

\* Mutant: the crossfade is never reset.
tick_without_reset(lu, elapsed) ==
    LET offset == NoiseOffset(elapsed)
        offset_1 == lu.line_noise_offset_1 + offset
        blending == offset_1 > BLEND_THRESHOLD
    IN  [lu EXCEPT !.line_noise_offset_1 = offset_1,
                   !.line_noise_offset_2 = IF blending THEN @ + offset ELSE @,
                   !.line_noise_blend_factor = IF blending THEN @ + BASE_OFFSET ELSE @]

\* Mutant: the reset restarts offset_1 from zero and keeps offset_2.
tick_resetting_offset_1(lu, elapsed) ==
    LET offset == NoiseOffset(elapsed)
        offset_1 == lu.line_noise_offset_1 + offset
        blending == offset_1 > BLEND_THRESHOLD
        offset_2 == IF blending THEN lu.line_noise_offset_2 + offset
                    ELSE lu.line_noise_offset_2
        blend == IF blending THEN lu.line_noise_blend_factor + BASE_OFFSET
                 ELSE lu.line_noise_blend_factor
    IN  IF blend > OffsetScale
        THEN [lu EXCEPT !.line_noise_offset_1 = 0,
                        !.line_noise_offset_2 = offset_2,
                        !.line_noise_blend_factor = 0]
        ELSE [lu EXCEPT !.line_noise_offset_1 = offset_1,
                        !.line_noise_offset_2 = offset_2,
                        !.line_noise_blend_factor = blend]

\* Mutant: offset_2 and the blend factor accumulate from the first tick on.
tick_always_blending(lu, elapsed) ==
    LET offset == NoiseOffset(elapsed)
        blend == lu.line_noise_blend_factor + BASE_OFFSET
    IN  IF blend > OffsetScale
        THEN [lu EXCEPT !.line_noise_offset_1 = lu.line_noise_offset_2 + offset,
                        !.line_noise_offset_2 = 0,
                        !.line_noise_blend_factor = 0]
        ELSE [lu EXCEPT !.line_noise_offset_1 = @ + offset,
                        !.line_noise_offset_2 = @ + offset,
                        !.line_noise_blend_factor = blend]

\* LineUniforms::tick
tick(lu, elapsed) ==
    LET offset == NoiseOffset(elapsed)
        offset_1 == lu.line_noise_offset_1 + offset
        blending == offset_1 > BLEND_THRESHOLD
        offset_2 == IF blending THEN lu.line_noise_offset_2 + offset
                    ELSE lu.line_noise_offset_2
        blend == IF blending THEN lu.line_noise_blend_factor + BASE_OFFSET
                 ELSE lu.line_noise_blend_factor
    IN  IF blend > OffsetScale
        THEN [lu EXCEPT !.line_noise_offset_1 = offset_2,
                        !.line_noise_offset_2 = 0,
                        !.line_noise_blend_factor = 0]
        ELSE [lu EXCEPT !.line_noise_offset_1 = offset_1,
                        !.line_noise_offset_2 = offset_2,
                        !.line_noise_blend_factor = blend]

\* LineUniforms::set_timestep
set_timestep(lu, timestep) == [lu EXCEPT !.delta_time = timestep]

\* ------------------------------------------------------------- line state

\* DoubleTransformFeedback::new: both buffers hold the initial data and
\* buffer 0 is the active one.
DoubleTransformFeedbackNew(data) ==
    [buffers |-> [i \in {0, 1} |-> data], active_buffer |-> 0]

\* DoubleTransformFeedback::overwrite_buffer: both buffers take the data.
overwrite_buffer(lsb, data) ==
    [lsb EXCEPT !.buffers = [i \in {0, 1} |-> data]]

\* The place_lines kernel: one output element per drawn vertex, computed from
\* the input element of the same cell.
PlaceLinesKernel(input, output, count) ==
    [i \in DOMAIN output |->
        IF i <= count /\ i \in DOMAIN input THEN input[i] + 1 ELSE output[i]]

\* Mutant: place_lines binds the vertex array of the buffer being written.
PlaceLinesReadsInactive(lsb) == 1 - lsb.active_buffer

\* self.place_lines_buffers[self.line_state_buffers.active_buffer].bind():
\* the vertex array built in the i-th round of Drawer::new reads buffer i.
PlaceLinesReads(lsb) == lsb.active_buffer

\* DoubleTransformFeedback::draw_to: the draw call writes the buffer that is
\* not active, then the buffers are swapped.
draw_to(lsb, reads, count) ==
    LET writes == 1 - lsb.active_buffer
    IN  [buffers |-> [lsb.buffers EXCEPT ![writes] =
                        PlaceLinesKernel(lsb.buffers[reads], lsb.buffers[writes], count)],
         active_buffer |-> writes]

\* Drawer::place_lines, the command it issues.
PlaceLinesCmd(lsb) ==
    Cmd("place_lines", 0, "read", PlaceLinesReads(lsb), 1 - lsb.active_buffer)

\* Drawer::place_lines, its effect on the line state.
place_lines(lsb, count) == draw_to(lsb, PlaceLinesReads(lsb), count)

\* Mutant: the draws bind the vertex array of the buffer that is not active.
DrawReadsInactive(lsb) == 1 - lsb.active_buffer

\* self.draw_lines_buffers[self.line_state_buffers.active_buffer].bind()
DrawReads(lsb) == lsb.active_buffer

\* Mutant: draw_lines swaps the buffers as draw_to does.
draw_lines_swapping(lsb) == [lsb EXCEPT !.active_buffer = 1 - lsb.active_buffer]

\* Drawer::draw_lines and Drawer::draw_endpoints take &self: they bind the
\* vertex array of the active buffer and draw, with no transform feedback.
draw_lines(lsb) == lsb
draw_endpoints(lsb) == lsb

\* draw_texture binds a texture and draws a full-screen quad.
draw_texture(lsb) == lsb

\* ------------------------------------------------------------------ clock

\* Mutant: the pressure is solved before the divergence is calculated.
FixedStepPressureFirst(k) ==
    << Cmd("update_buffers", k, "", -1, -1),
       Cmd("generate", k, "", -1, -1),
       Cmd("advect_forward", k, "", -1, -1),
       Cmd("advect_reverse", k, "", -1, -1),
       Cmd("adjust_advection", k, "", -1, -1),
       Cmd("diffuse", k, "", -1, -1),
       Cmd("inject_noise", k, "write", -1, -1),
       Cmd("solve_pressure", k, "", -1, -1),
       Cmd("calculate_divergence", k, "", -1, -1),
       Cmd("subtract_gradient", k, "", -1, -1) >>

\* Mutant: the noise is injected before the advection stages.
FixedStepInjectFirst(k) ==
    << Cmd("update_buffers", k, "", -1, -1),
       Cmd("generate", k, "", -1, -1),
       Cmd("inject_noise", k, "write", -1, -1),
       Cmd("advect_forward", k, "", -1, -1),
       Cmd("advect_reverse", k, "", -1, -1),
       Cmd("adjust_advection", k, "", -1, -1),
       Cmd("diffuse", k, "", -1, -1),
       Cmd("calculate_divergence", k, "", -1, -1),
       Cmd("solve_pressure", k, "", -1, -1),
       Cmd("subtract_gradient", k, "", -1, -1) >>

\* One iteration of the while loop of Flux::compute, in issue order.
FixedStep(k) ==
    << Cmd("update_buffers", k, "", -1, -1),
       Cmd("generate", k, "", -1, -1),
       Cmd("advect_forward", k, "", -1, -1),
       Cmd("advect_reverse", k, "", -1, -1),
       Cmd("adjust_advection", k, "", -1, -1),
       Cmd("diffuse", k, "", -1, -1),
       Cmd("inject_noise", k, "write", -1, -1),
       Cmd("calculate_divergence", k, "", -1, -1),
       Cmd("solve_pressure", k, "", -1, -1),
       Cmd("subtract_gradient", k, "", -1, -1) >>

\* Mutant: the loop stops one step early when the accumulator equals the
\* timestep.
ContinueLoopStrict(frame_time, fluid_timestep) == frame_time > fluid_timestep

\* while self.fluid_frame_time >= self.settings.fluid_timestep
ContinueLoop(frame_time, fluid_timestep) == frame_time >= fluid_timestep

\* Mutant: what is left in the accumulator after the loop is dropped.
RECURSIVE FixedStepLoopDropping(_, _, _, _)
FixedStepLoopDropping(frame_time, fluid_timestep, k, cmds) ==
    IF ContinueLoop(frame_time, fluid_timestep)
    THEN FixedStepLoopDropping(frame_time - fluid_timestep, fluid_timestep, k + 1,
                               cmds \o FixedStep(k + 1))
    ELSE [fluid_frame_time |-> 0, steps |-> k, commands |-> cmds]

\* The while loop of Flux::compute: repeated subtraction of fluid_timestep.
RECURSIVE FixedStepLoop(_, _, _, _)
FixedStepLoop(frame_time, fluid_timestep, k, cmds) ==
    IF ContinueLoop(frame_time, fluid_timestep)
    THEN FixedStepLoop(frame_time - fluid_timestep, fluid_timestep, k + 1,
                       cmds \o FixedStep(k + 1))
    ELSE [fluid_frame_time |-> frame_time, steps |-> k, commands |-> cmds]

\* 0.001 * (timestamp - last_timestamp) as f32, in units.
Seconds(ms) == (ms * UnitsPerSecond) \div 1000

\* Mutant: the frame time is not clamped.
TimestepUnclamped(timestamp, last) == Seconds(timestamp - last)

\* let timestep = f32::min(MAX_FRAME_TIME, ...)
Timestep(timestamp, last) == Min(MAX_FRAME_TIME, Seconds(timestamp - last))

\* Reset animation timers to avoid precision issues.
WrapElapsed(elapsed) ==
    LET timer_overflow == elapsed - MAX_ELAPSED_TIME
    IN  IF timer_overflow >= 0 THEN timer_overflow ELSE elapsed

\* Mutant: the lines are placed only in a tick that ran a fixed step.
ComputeCommandsPerStep(loop_commands, place_commands) ==
    IF loop_commands = <<>> THEN <<>> ELSE loop_commands \o place_commands

\* The commands of one Flux::compute call: the fixed steps of the while loop,
\* then the block that ticks the line uniforms and places the lines.
ComputeCommands(loop_commands, place_commands) == loop_commands \o place_commands

\* The commands of one Flux::render call.
RenderCommands(mode, lsb) ==
    CASE mode = "Normal" ->
            << Cmd("set_view_transform", 0, "", -1, -1),
               Cmd("draw_lines", 0, "", DrawReads(lsb), -1),
               Cmd("draw_endpoints", 0, "", DrawReads(lsb), -1) >>
      [] mode = "DebugNoise" -> << Cmd("draw_texture", 0, "noise", -1, -1) >>
      [] mode = "DebugFluid" -> << Cmd("draw_texture", 0, "fluid", -1, -1) >>
      [] mode = "DebugPressure" -> << Cmd("draw_texture", 0, "pressure", -1, -1) >>
      [] mode = "DebugDivergence" -> << Cmd("draw_texture", 0, "divergence", -1, -1) >>

\* Mutant: drawing the lines swaps the line-state buffers.
RenderLineStateSwapping(mode, lsb) ==
    IF mode = "Normal" THEN draw_lines_swapping(lsb) ELSE draw_texture(lsb)

\* The line state after Flux::render.
RenderLineState(mode, lsb) ==
    IF mode = "Normal" THEN draw_endpoints(draw_lines(lsb)) ELSE draw_texture(lsb)

\* ---------------------------------------------------------------- actions

\* No second Flux is running.
NoTwin == <<>>

\* No Fluid of fluid.rs has been constructed.
NoFluid == <<>>

\* The fluid field and the noise generator of the Flux are not followed.
NoFields == <<>>

\* The state of the host application's side, where a specification leaves
\* it out.
Unused == <<>>
HostUnused ==
    /\ free_call = Unused
    /\ physical_size = Unused
    /\ pc = Unused
    /\ uniform_source = Unused
    /\ basepoint_buffer = Unused
    /\ color_texture = Unused
    /\ color_mode = Unused
    /\ outcome = Unused
    /\ event_loop = Unused

\* Flux::new, Drawer::new
InitFlux ==
    /\ settings \in SettingsSet
    /\ last_timestamp = 0
    /\ elapsed_time = 0
    /\ fluid_frame_time = 0
    /\ drawer_settings = settings
    /\ \E size \in LogicalSizes :
         /\ logical_size = clamp_logical_size(size[1], size[2])
         /\ grid = GridNew(logical_size[1], logical_size[2], settings.grid_spacing)
    /\ line_state_buffers = DoubleTransformFeedbackNew(grid.line_state)
    /\ line_uniforms = LineUniformsNew
    /\ encoder = <<>>
    /\ frames = 0

\* A Flux on its own.
Init ==
    /\ InitFlux
    /\ twin = NoTwin
    /\ fluid = NoFluid
    /\ fluid_call = NoFluid
    /\ HostUnused
    /\ fluid_context = NoFields
    /\ noise_generator = NoFields

\* Flux::compute on a fresh encoder, followed by `then_render` Flux::render
\* calls on the same encoder.
Tick(timestamp, then_render) ==
    LET timestep == Timestep(timestamp, last_timestamp)
        elapsed == WrapElapsed(elapsed_time + timestep)
        loop == FixedStepLoop(fluid_frame_time + timestep, settings.fluid_timestep,
                              0, <<>>)
        placed == place_lines(line_state_buffers, grid.line_count)
        commands == ComputeCommands(loop.commands, << PlaceLinesCmd(line_state_buffers) >>)
    IN  /\ frames < MaxFrames
        /\ last_timestamp' = timestamp
        /\ elapsed_time' = elapsed
        /\ fluid_frame_time' = loop.fluid_frame_time
        /\ line_uniforms' = set_timestep(tick(line_uniforms, elapsed), timestep)
        /\ IF then_render
           THEN /\ line_state_buffers' = RenderLineState(settings.mode, placed)
                /\ encoder' = commands \o RenderCommands(settings.mode, placed)
           ELSE /\ line_state_buffers' = placed
                /\ encoder' = commands
        /\ frames' = frames + 1
        /\ UNCHANGED <<settings, drawer_settings, logical_size, grid>>

\* Flux::compute
compute(timestamp) == Tick(timestamp, FALSE)

\* Flux::animate
animate(timestamp) == Tick(timestamp, TRUE)

\* Flux::render
render ==
    /\ line_state_buffers' = RenderLineState(settings.mode, line_state_buffers)
    /\ encoder' = RenderCommands(settings.mode, line_state_buffers)
    /\ UNCHANGED <<settings, clock, drawer_settings, logical_size, grid,
                   line_uniforms, frames>>

\* Mutant: an update that starts the lines and the crossfade afresh.
update_resetting(new_settings) ==
    /\ settings' = new_settings
    /\ line_uniforms' = LineUniformsNew
    /\ line_state_buffers' = DoubleTransformFeedbackNew(grid.line_state)
    /\ encoder' = <<>>
    /\ UNCHANGED <<clock, drawer_settings, logical_size, grid, frames>>

\* Flux::update, Drawer::update
update(new_settings) ==
    /\ settings' = new_settings
    /\ line_uniforms' = line_uniforms_update(line_uniforms, logical_size, new_settings)
    /\ encoder' = <<>>
    /\ UNCHANGED <<clock, drawer_settings, logical_size, grid, line_state_buffers,
                   frames>>

\* Mutant: a resize that keeps the line state of the old grid.
resize_keeping_line_state(width, height) ==
    LET size == clamp_logical_size(width, height)
    IN  /\ logical_size' = size
        /\ grid' = GridNew(size[1], size[2], drawer_settings.grid_spacing)
        /\ line_uniforms' = line_uniforms_update(line_uniforms, size, drawer_settings)
        /\ encoder' = <<>>
        /\ UNCHANGED <<settings, clock, drawer_settings, frames, line_state_buffers>>

\* Flux::resize, Drawer::resize
resize(width, height) ==
    LET size == clamp_logical_size(width, height)
        new_grid == GridNew(size[1], size[2], drawer_settings.grid_spacing)
    IN  /\ logical_size' = size
        /\ grid' = new_grid
        /\ line_state_buffers' = overwrite_buffer(line_state_buffers, new_grid.line_state)
        /\ line_uniforms' = line_uniforms_update(line_uniforms, size, drawer_settings)
        /\ encoder' = <<>>
        /\ UNCHANGED <<settings, clock, drawer_settings, frames>>

Next ==
    \/ \E timestamp \in Timestamps : compute(timestamp) /\ UNCHANGED aux
    \/ \E timestamp \in Timestamps : animate(timestamp) /\ UNCHANGED aux
    \/ render /\ UNCHANGED aux
    \/ \E new_settings \in SettingsSet : update(new_settings) /\ UNCHANGED aux
    \/ \E size \in LogicalSizes : resize(size[1], size[2]) /\ UNCHANGED aux

Spec == Init /\ [][Next]_vars

\* ------------------------------------------------- two runs, two modes

\* Display modes given to the second Flux.
TwinModes == Modes

\* Settings offered to the first Flux when a second one runs beside it.
TwinSettings == {s \in SettingsSet : s.mode = "Normal"}

\* Logical size both are constructed with.
TwinSize == <<400, 400>>

\* The second Flux as constructed by Flux::new with the given mode.
TwinNew(mode) ==
    [mode |-> mode,
     last_timestamp |-> 0,
     elapsed_time |-> 0,
     fluid_frame_time |-> 0,
     line_state_buffers |-> DoubleTransformFeedbackNew(grid.line_state),
     line_uniforms |-> LineUniformsNew,
     encoder |-> <<>>]

\* Flux::compute of the second Flux, followed by Flux::render if then_render.
TwinTick(t, timestamp, then_render) ==
    LET timestep == Timestep(timestamp, t.last_timestamp)
        elapsed == WrapElapsed(t.elapsed_time + timestep)
        loop == FixedStepLoop(t.fluid_frame_time + timestep, settings.fluid_timestep,
                              0, <<>>)
        placed == place_lines(t.line_state_buffers, grid.line_count)
        commands == ComputeCommands(loop.commands, << PlaceLinesCmd(t.line_state_buffers) >>)
    IN  [t EXCEPT
           !.last_timestamp = timestamp,
           !.elapsed_time = elapsed,
           !.fluid_frame_time = loop.fluid_frame_time,
           !.line_uniforms = set_timestep(tick(t.line_uniforms, elapsed), timestep),
           !.line_state_buffers =
               IF then_render THEN RenderLineState(t.mode, placed) ELSE placed,
           !.encoder =
               IF then_render THEN commands \o RenderCommands(t.mode, placed)
               ELSE commands]

\* Flux::render of the second Flux.
TwinRender(t) ==
    [t EXCEPT !.line_state_buffers = RenderLineState(t.mode, t.line_state_buffers),
              !.encoder = RenderCommands(t.mode, t.line_state_buffers)]

\* Flux::update of the second Flux: the same new settings but for the mode.
TwinUpdate(t, new_settings, mode) ==
    [t EXCEPT !.mode = mode,
              !.line_uniforms = line_uniforms_update(t.line_uniforms, logical_size,
                                                     new_settings),
              !.encoder = <<>>]

InitTwin ==
    /\ settings \in TwinSettings
    /\ last_timestamp = 0
    /\ elapsed_time = 0
    /\ fluid_frame_time = 0
    /\ drawer_settings = settings
    /\ logical_size = clamp_logical_size(TwinSize[1], TwinSize[2])
    /\ grid = GridNew(logical_size[1], logical_size[2], settings.grid_spacing)
    /\ line_state_buffers = DoubleTransformFeedbackNew(grid.line_state)
    /\ line_uniforms = LineUniformsNew
    /\ encoder = <<>>
    /\ frames = 0
    /\ \E mode \in TwinModes : twin = TwinNew(mode)
    /\ fluid = NoFluid
    /\ fluid_call = NoFluid
    /\ HostUnused
    /\ fluid_context = NoFields
    /\ noise_generator = NoFields

\* Both are fed the same call with the same arguments.
NextTwin ==
    \/ \E timestamp \in Timestamps :
         compute(timestamp) /\ twin' = TwinTick(twin, timestamp, FALSE)
           /\ UNCHANGED <<fluid, fluid_call, fluid_context, noise_generator, host>>
    \/ \E timestamp \in Timestamps :
         animate(timestamp) /\ twin' = TwinTick(twin, timestamp, TRUE)
           /\ UNCHANGED <<fluid, fluid_call, fluid_context, noise_generator, host>>
    \/ render /\ twin' = TwinRender(twin)
           /\ UNCHANGED <<fluid, fluid_call, fluid_context, noise_generator, host>>
    \/ \E new_settings \in TwinSettings, mode \in TwinModes :
         update(new_settings) /\ twin' = TwinUpdate(twin, new_settings, mode)
           /\ UNCHANGED <<fluid, fluid_call, fluid_context, noise_generator, host>>

SpecTwin == InitTwin /\ [][NextTwin]_vars

\* -------------------------------------------------- the Fluid of fluid.rs

\* Advections explored on one Fluid.
MaxAdvects == 3

\* Values of the timestep handed to advect and diffuse.
FluidDeltas == {1, 2}

\* A texture's content is the list of passes that produced it: the sine field
\* of data::make_sine_vector_field, then the timestep of each advection.
SineVectorField == << 0 >>
\* The zeroed data of the divergence texture.
ZeroTexture == << -1 >>

\* DoubleFramebuffer::new(...).with_f32_data(data): two textures, one of them
\* current and holding the data; the other holds the data or zeroes.
DoubleFramebufferNew(data, other) ==
    [textures |-> [i \in {0, 1} |-> IF i = 0 THEN data ELSE other], current |-> 0]

\* DoubleFramebuffer::current, next, swap
current(df) == df.current
next(df) == 1 - df.current
swap(df) == [df EXCEPT !.current = 1 - df.current]

\* advection.frag: the input texture moved along the velocity texture.
AdvectionKernel(input, velocity, timestep) ==
    IF input = velocity THEN Append(input, timestep) ELSE Append(input, 0 - timestep)

\* divergence.frag
DivergenceKernel(velocity, timestep) == << -2, timestep >> \o velocity

\* Mutant: advect draws to the current texture.
AdvectTargetCurrent(df) == current(df)

\* advection_pass.draw_to(&self.velocity_textures.next(), ...)
AdvectTarget(df) == next(df)

\* Fluid::new
FluidNew(other) ==
    [velocity_textures |-> DoubleFramebufferNew(SineVectorField, other),
     divergence_texture |-> ZeroTexture]

\* Fluid::get_velocity, as the index of the texture it returns.
get_velocity(f) == current(f.velocity_textures)

\* Fluid::advect
advect(timestep) ==
    LET df == fluid.velocity_textures
        input == current(df)
        velocity == current(df)
        target == AdvectTarget(df)
        drawn == [df EXCEPT !.textures[target] =
                     AdvectionKernel(df.textures[input], df.textures[velocity], timestep)]
    IN  /\ Len(df.textures[current(df)]) <= MaxAdvects
        /\ fluid' = [fluid EXCEPT !.velocity_textures = swap(drawn)]
        /\ fluid_call' = [op |-> "advect", timestep |-> timestep,
                          reads |-> {input, velocity}, writes |-> target,
                          returned |-> -1]
        /\ UNCHANGED <<flux, twin, fluid_context, noise_generator, host>>

\* Fluid::diffuse
diffuse(timestep) ==
    LET df == fluid.velocity_textures
        velocity == current(df)
    IN  /\ fluid' = [fluid EXCEPT !.divergence_texture =
                        DivergenceKernel(df.textures[velocity], timestep)]
        /\ fluid_call' = [op |-> "diffuse", timestep |-> timestep,
                          reads |-> {velocity}, writes |-> -1, returned |-> -1]
        /\ UNCHANGED <<flux, twin, fluid_context, noise_generator, host>>

\* A caller reads Fluid::get_velocity.
read_velocity ==
    /\ fluid_call' = [op |-> "get_velocity", timestep |-> 0, reads |-> {},
                      writes |-> -1, returned |-> get_velocity(fluid)]
    /\ UNCHANGED <<flux, twin, fluid, fluid_context, noise_generator, host>>

InitFluid ==
    /\ InitFlux
    /\ settings.mode = "Normal"
    /\ twin = NoTwin
    /\ \E other \in {SineVectorField, ZeroTexture} : fluid = FluidNew(other)
    /\ fluid_call = NoFluid
    /\ HostUnused
    /\ fluid_context = NoFields
    /\ noise_generator = NoFields

NextFluid ==
    \/ \E timestep \in FluidDeltas : advect(timestep)
    \/ \E timestep \in FluidDeltas : diffuse(timestep)
    \/ read_velocity

SpecFluid == InitFluid /\ [][NextFluid]_vars

\* ------------------------------------------- a Flux late in its crossfade

\* Crossfade values a long-running Flux holds shortly before offset_1 passes
\* BLEND_THRESHOLD (offset_2 and the blend factor still zero) and shortly
\* before the blend factor passes 1 (after n ticks of blending offset_2 is the
\* sum of n offsets and offset_1 is that much above its value at the start of
\* the blending).
LateLineUniforms ==
    {[LineUniformsNew EXCEPT !.line_noise_offset_1 = BLEND_THRESHOLD - below]
        : below \in {0, 5, 20}}
    \cup
    {[LineUniformsNew EXCEPT !.line_noise_offset_1 = BLEND_THRESHOLD - below + n * BASE_OFFSET,
                             !.line_noise_offset_2 = n * BASE_OFFSET,
                             !.line_noise_blend_factor = n * BASE_OFFSET]
        : below \in {0, 10}, n \in {OffsetScale \div BASE_OFFSET - 1,
                                    OffsetScale \div BASE_OFFSET}}

\* Elapsed times of a long-running Flux: the start, the extremes of the
\* perturbation and the last unit before the timers wrap.
LateElapsedTimes ==
    {0, 25 * UnitsPerSecond, 75 * UnitsPerSecond, MAX_ELAPSED_TIME - 1}

InitLate ==
    /\ settings \in {s \in SettingsSet : s.mode = "Normal" /\ s.fluid_timestep = 1}
    /\ last_timestamp = 0
    /\ elapsed_time \in LateElapsedTimes
    /\ fluid_frame_time = 0
    /\ drawer_settings = settings
    /\ logical_size = clamp_logical_size(TwinSize[1], TwinSize[2])
    /\ grid = GridNew(logical_size[1], logical_size[2], settings.grid_spacing)
    /\ line_state_buffers = DoubleTransformFeedbackNew(grid.line_state)
    /\ line_uniforms \in LateLineUniforms
    /\ encoder = <<>>
    /\ frames = 0
    /\ twin = NoTwin
    /\ fluid = NoFluid
    /\ fluid_call = NoFluid
    /\ HostUnused
    /\ fluid_context = NoFields
    /\ noise_generator = NoFields

\* The ticks of a Flux that has been running for long.
NextLate ==
    \/ \E timestamp \in Timestamps : compute(timestamp) /\ UNCHANGED aux
    \/ \E timestamp \in Timestamps : animate(timestamp) /\ UNCHANGED aux

SpecLate == InitLate /\ [][NextLate]_vars

\* ------------------------------------------------------ Grid::new alone

\* Largest width and height of the small viewports given to Grid::new.
MaxGridSide == 13

\* The viewports of the tests is_sane_grid_for_*, with their grid spacing.
TestGridSpacing == 15
TestSizes ==
    {<<414, 896>>, <<390, 844>>, <<1280, 800>>, <<1440, 900>>, <<3840, 1600>>,
     <<7680, 1440>>}

\* Arguments given to Grid::new: the tests' and every small viewport, empty
\* ones included, with a spacing of 1 and of 3.
GridInputs ==
    {<<size[1], size[2], TestGridSpacing>> : size \in TestSizes}
    \cup ((0..MaxGridSide) \X (0..MaxGridSide) \X {1, 3})

\* Grid::new has not been called.
NoGrid == <<>>

\* The arguments of a call of Grid::new, before the call.
InitGrid ==
    /\ settings \in {s \in SettingsSet : s.mode = "Normal" /\ s.fluid_timestep = 1}
    /\ last_timestamp = 0
    /\ elapsed_time = 0
    /\ fluid_frame_time = 0
    /\ \E input \in GridInputs :
         /\ logical_size = <<input[1], input[2]>>
         /\ drawer_settings = [settings EXCEPT !.grid_spacing = input[3]]
    /\ grid = NoGrid
    /\ line_state_buffers = DoubleTransformFeedbackNew(<<>>)
    /\ line_uniforms = LineUniformsNew
    /\ encoder = <<>>
    /\ frames = 0
    /\ twin = NoTwin
    /\ fluid = NoFluid
    /\ fluid_call = NoFluid
    /\ HostUnused
    /\ fluid_context = NoFields
    /\ noise_generator = NoFields

\* Grid::new(width, height, grid_spacing)
new_grid ==
    /\ grid = NoGrid
    /\ grid' = GridNew(logical_size[1], logical_size[2], drawer_settings.grid_spacing)
    /\ UNCHANGED <<settings, clock, drawer_settings, logical_size, line_state_buffers,
                   line_uniforms, encoder, frames, aux>>

SpecGrid == InitGrid /\ [][new_grid]_vars

\* ------------------------------- a Flux with its fluid field and its noise

\* Settings::noise_channels: the offset_increment of each channel.
NoiseIncrements == << 1, 3 >>

\* render::fluid::Context::new(device, queue, grid.scaling_ratio, settings):
\* textures sized for the scaling ratio; their content is the number of solver
\* steps they have been through.
FluidContextNew(scaling_ratio) == [scaling_ratio |-> scaling_ratio, steps |-> 0]

\* NoiseGeneratorBuilder::new(2 * fluid_size, grid.scaling_ratio, settings),
\* add_channel for each channel, build.
NoiseGeneratorNew(scaling_ratio) ==
    [scaling_ratio |-> scaling_ratio, offsets |-> [c \in DOMAIN NoiseIncrements |-> 0]]

\* NoiseGenerator::update_buffers(queue, dt), called `steps` times: each
\* channel's offset advances by offset_increment * dt per call.
update_buffers(ng, dt, steps) ==
    [ng EXCEPT !.offsets =
        [c \in DOMAIN NoiseIncrements |-> ng.offsets[c] + steps * NoiseIncrements[c] * dt]]

\* NoiseGenerator::resize(device, size, scaling_ratio): a new output texture,
\* the channel offsets kept.
noise_resize(ng, scaling_ratio) == [ng EXCEPT !.scaling_ratio = scaling_ratio]

\* Mutant: the noise generator advances once per tick, not per fixed step.
FixedStepsOncePerTick(timestamp) == 1

\* The fixed steps Flux::compute runs for a timestamp.
FixedSteps(timestamp) ==
    FixedStepLoop(fluid_frame_time + Timestep(timestamp, last_timestamp),
                  settings.fluid_timestep, 0, <<>>).steps

InitFields ==
    /\ InitFlux
    /\ settings \in TwinSettings
    /\ twin = NoTwin
    /\ fluid = NoFluid
    /\ fluid_call = NoFluid
    /\ HostUnused
    /\ fluid_context = FluidContextNew(grid.scaling_ratio)
    /\ noise_generator = NoiseGeneratorNew(grid.scaling_ratio)

\* The calls of Flux with what they do to the fluid field and to the noise
\* generator: compute advances both once per fixed step; render touches
\* neither; update keeps the fluid content and the channel offsets; resize
\* resizes the noise generator and leaves the fluid field as it is (its
\* resize call is commented out).
NextFields ==
    \/ \E timestamp \in Timestamps, then_render \in BOOLEAN :
         /\ Tick(timestamp, then_render)
         /\ fluid_context' =
              [fluid_context EXCEPT !.steps = @ + FixedSteps(timestamp)]
         /\ noise_generator' =
              update_buffers(noise_generator, settings.fluid_timestep,
                             FixedSteps(timestamp))
         /\ UNCHANGED <<twin, fluid, fluid_call, host>>
    \/ /\ render
       /\ UNCHANGED aux
    \/ \E new_settings \in TwinSettings :
         /\ update(new_settings)
         /\ UNCHANGED aux
    \/ \E size \in LogicalSizes :
         /\ resize(size[1], size[2])
         /\ fluid_context' = fluid_context
         /\ noise_generator' = noise_resize(noise_generator, grid'.scaling_ratio)
         /\ UNCHANGED <<twin, fluid, fluid_call, host>>

SpecFields == InitFields /\ [][NextFields]_vars

\* ----------------------------------------------------------------- claims

\* A step of the behaviour is a tick: one Flux::compute call.
IsTick == frames' = frames + 1

Count(enc, op) == Cardinality({i \in DOMAIN enc : enc[i].op = op})

\* The number of fixed steps whose commands a command list holds.
StepsIssued(enc) == Cardinality({enc[i].step : i \in DOMAIN enc} \ {0})

Positions(enc, ops) == {i \in DOMAIN enc : enc[i].op \in ops}

AdvectionStages == {"advect_forward", "advect_reverse", "adjust_advection"}
ProjectionStages == {"calculate_divergence", "solve_pressure", "subtract_gradient"}
DrawOps == {"set_view_transform", "draw_lines", "draw_endpoints", "draw_texture"}
LineDrawOps == {"draw_lines", "draw_endpoints"}

\* The crossfade values of the line uniforms.
Crossfade(lu) ==
    <<lu.line_noise_offset_1, lu.line_noise_offset_2, lu.line_noise_blend_factor>>

\* clamp(0, MAX_FRAME_TIME, (timestamp - last_timestamp) / 1000)
ClampedDelta(timestamp, last) ==
    Max(0, Min(MAX_FRAME_TIME, ((timestamp - last) * UnitsPerSecond) \div 1000))

\* C1: in a tick with a non-negative accumulator and a timestamp that does not
\* decrease, the number of fixed steps is the number of whole fluid_timestep
\* intervals in (accumulator + clamped delta), and afterwards
\* 0 <= accumulator < fluid_timestep.
C1_FixedStepCount ==
    [][(IsTick /\ fluid_frame_time >= 0 /\ last_timestamp' >= last_timestamp) =>
        LET total == fluid_frame_time + ClampedDelta(last_timestamp', last_timestamp)
        IN  /\ StepsIssued(encoder') = total \div settings.fluid_timestep
            /\ 0 <= fluid_frame_time'
            /\ fluid_frame_time' < settings.fluid_timestep]_vars

\* C1 witness: three ticks that each advance by less than fluid_timestep = 3;
\* the third one brings the accumulated time to 3 and emits the first step.
C1_Witness ==
    /\ frames = 3
    /\ settings.fluid_timestep = 3
    /\ last_timestamp = 3 * MsPerUnit
    /\ line_uniforms.delta_time = 1
    /\ elapsed_time = 3
    /\ fluid_frame_time = 0
    /\ StepsIssued(encoder) = 1

\* C2 (as claimed): the delta applied in a tick to elapsed_time, to the frame
\* accumulator and handed to the line uniforms is clamp(0, MAX_FRAME_TIME, dt):
\* never negative, never above MAX_FRAME_TIME.
C2_DeltaClampedBothSides ==
    [][IsTick =>
        LET raw_dt == ClampedDelta(last_timestamp', last_timestamp)
        IN  /\ line_uniforms'.delta_time = raw_dt
            /\ line_uniforms'.delta_time >= 0
            /\ line_uniforms'.delta_time <= MAX_FRAME_TIME
            /\ elapsed_time' \in {elapsed_time + raw_dt,
                                  elapsed_time + raw_dt - MAX_ELAPSED_TIME}
            /\ fluid_frame_time' + StepsIssued(encoder') * settings.fluid_timestep
                 = fluid_frame_time + raw_dt]_vars

\* C3 (as claimed): 0 <= elapsed_time < MAX_ELAPSED_TIME in every state.
C3_ElapsedInRange == 0 <= elapsed_time /\ elapsed_time < MAX_ELAPSED_TIME

\* C4 (as claimed): the fixed steps of one tick number at most
\* floor(MAX_FRAME_TIME / fluid_timestep) + 1.
C4_StepsBoundedByFrameTime ==
    [][IsTick =>
        StepsIssued(encoder') <= MAX_FRAME_TIME \div settings.fluid_timestep + 1]_vars

\* C4 (amended): the fixed steps of one tick number at most
\* floor((accumulator before the tick + MAX_FRAME_TIME) / fluid_timestep),
\* whatever the timestamp; that is at most floor(MAX_FRAME_TIME /
\* fluid_timestep) + 1 when the accumulator is below fluid_timestep.
C4_StepsBoundedByBacklog ==
    [][IsTick =>
        /\ StepsIssued(encoder') <=
             Max(0, (fluid_frame_time + MAX_FRAME_TIME) \div settings.fluid_timestep)
        /\ fluid_frame_time < settings.fluid_timestep =>
             StepsIssued(encoder') <= MAX_FRAME_TIME \div settings.fluid_timestep + 1]_vars

\* C4 witness: a first tick after a stall of twice MAX_FRAME_TIME runs only
\* the steps of MAX_FRAME_TIME.
C4_Witness ==
    /\ frames = 1
    /\ last_timestamp = 2 * MAX_FRAME_TIME * MsPerUnit
    /\ settings.fluid_timestep = 1
    /\ StepsIssued(encoder) = MAX_FRAME_TIME

\* The eight solver stages in the order of the claim.
SolverStages ==
    << "advect_forward", "advect_reverse", "adjust_advection", "diffuse",
       "inject_noise", "calculate_divergence", "solve_pressure", "subtract_gradient" >>

IsSolverStage(cmd) == \E n \in DOMAIN SolverStages : SolverStages[n] = cmd.op

\* C5: the solver commands of a call are, step after step, the eight stages in
\* order, each exactly once, and all of step k precede all of step k + 1.
C5_StagesInOrder ==
    LET stages == SelectSeq(encoder, IsSolverStage)
    IN  /\ Len(stages) = 8 * StepsIssued(encoder)
        /\ \A i \in DOMAIN stages :
             /\ stages[i].op = SolverStages[((i - 1) % 8) + 1]
             /\ stages[i].step = ((i - 1) \div 8) + 1

\* C5 witness: a tick that ran two fixed steps.
C5_Witness == StepsIssued(encoder) = 2 /\ Count(encoder, "subtract_gradient") = 2

SameStep(enc, i, j) == enc[i].step = enc[j].step /\ enc[i].step > 0

\* C6 (as claimed): in every fixed step the noise is injected before the
\* advection stages, and advection precedes projection.
C6_InjectAdvectProject ==
    \A i \in Positions(encoder, {"inject_noise"}) :
    \A j \in Positions(encoder, AdvectionStages) :
    \A k \in Positions(encoder, ProjectionStages) :
        (SameStep(encoder, i, j) /\ SameStep(encoder, j, k)) => (i < j /\ j < k)

\* C6 (amended): in every fixed step the advection stages come first, then
\* the noise is injected, then the projection stages.
C6_AdvectInjectProject ==
    /\ Count(encoder, "inject_noise") = StepsIssued(encoder)
    /\ \A i \in Positions(encoder, {"inject_noise"}) :
         /\ \A j \in Positions(encoder, AdvectionStages) :
              SameStep(encoder, i, j) => j < i
         /\ \A k \in Positions(encoder, ProjectionStages) :
              SameStep(encoder, i, k) => i < k
         /\ \E j \in Positions(encoder, AdvectionStages) : SameStep(encoder, i, j)
         /\ \E k \in Positions(encoder, ProjectionStages) : SameStep(encoder, i, k)

\* C6 witness: a tick that injected noise in each of three fixed steps.
C6_Witness == Count(encoder, "inject_noise") = 3

C8_PlaceThenDraw ==
    \A p \in Positions(encoder, {"place_lines"}) :
        /\ encoder[p].arg = "read"
        /\ \A i \in DOMAIN encoder : encoder[i].step > 0 => i < p
        /\ \A d \in Positions(encoder, DrawOps) : p < d
        /\ \A d \in Positions(encoder, LineDrawOps) :
             encoder[d].reads = encoder[p].writes

\* C8 witness: an animate call that ran a fixed step and drew the lines.
C8_Witness ==
    /\ Count(encoder, "subtract_gradient") >= 1
    /\ Count(encoder, "place_lines") = 1
    /\ Count(encoder, "draw_lines") = 1
    /\ Count(encoder, "draw_endpoints") = 1

\* C9: place_lines reads the active buffer, writes the other one and flips
\* the active index once; nothing else flips it; the index is 0 or 1; the
\* buffer read is left as it was and the one written holds the kernel's
\* output for it; every draw reads the buffer that is active after the call.
C9_PingPong ==
    [][LET before == line_state_buffers
           after == line_state_buffers'
       IN  /\ after.active_buffer \in {0, 1}
           /\ \A p \in Positions(encoder', {"place_lines"}) :
                /\ encoder'[p].reads = before.active_buffer
                /\ encoder'[p].writes = 1 - before.active_buffer
                /\ after.active_buffer = encoder'[p].writes
                /\ after.buffers[encoder'[p].reads] = before.buffers[encoder'[p].reads]
                /\ \A c \in DOMAIN after.buffers[encoder'[p].writes] :
                     after.buffers[encoder'[p].writes][c]
                       = before.buffers[encoder'[p].reads][c] + 1
           /\ Positions(encoder', {"place_lines"}) = {} =>
                after.active_buffer = before.active_buffer
           /\ \A d \in Positions(encoder', LineDrawOps) :
                encoder'[d].reads = after.active_buffer]_vars

\* C9 witness: after three place_lines calls buffer 1 is active again and
\* holds what the third call made of buffer 0.
C9_Witness ==
    /\ frames = 3
    /\ line_state_buffers.active_buffer = 1
    /\ \A c \in DOMAIN line_state_buffers.buffers[1] :
         /\ line_state_buffers.buffers[1][c] = 3
         /\ line_state_buffers.buffers[0][c] = 2

IsRenderOnly(enc) == enc # <<>> /\ \A i \in DOMAIN enc : enc[i].op \in DrawOps

\* C10: a call that only renders leaves the line-state buffers, the active
\* index, the line uniforms, the grid and the clock as they were.
C10_RenderReadOnly ==
    [][IsRenderOnly(encoder') =>
        /\ line_state_buffers' = line_state_buffers
        /\ line_uniforms' = line_uniforms
        /\ grid' = grid
        /\ <<last_timestamp, elapsed_time, fluid_frame_time>>' =
             <<last_timestamp, elapsed_time, fluid_frame_time>>]_vars

\* C10 witness: a render of lines that a tick has placed.
C10_Witness ==
    /\ IsRenderOnly(encoder)
    /\ Count(encoder, "draw_lines") = 1
    /\ frames >= 1
    /\ line_uniforms.line_noise_offset_1 > 0
    /\ \E c \in DOMAIN line_state_buffers.buffers[line_state_buffers.active_buffer] :
         line_state_buffers.buffers[line_state_buffers.active_buffer][c] > 0

\* The commands of a call that are not draws: noise, fluid and line-field
\* commands.
IsSimulationCmd(cmd) == cmd.op \notin DrawOps

\* C11: two Flux fed the same calls, with settings that differ only in the
\* mode, agree in every state on the clock, on the number of fixed steps and
\* on the sequence of noise, fluid and line-field commands of the last call,
\* and on the line state and the line uniforms; the draws are those of each
\* one's mode.
C11_ModeIndependent ==
    /\ twin.last_timestamp = last_timestamp
    /\ twin.elapsed_time = elapsed_time
    /\ twin.fluid_frame_time = fluid_frame_time
    /\ StepsIssued(twin.encoder) = StepsIssued(encoder)
    /\ SelectSeq(twin.encoder, IsSimulationCmd) = SelectSeq(encoder, IsSimulationCmd)
    /\ twin.line_state_buffers = line_state_buffers
    /\ twin.line_uniforms = line_uniforms
    /\ \A i \in Positions(twin.encoder, {"draw_texture"}) : twin.mode # "Normal"
    /\ \A i \in Positions(twin.encoder, LineDrawOps) : twin.mode = "Normal"

\* C11 witness: after three animate calls with fixed steps, one Flux has
\* drawn lines and the other a debug texture.
C11_Witness ==
    /\ frames = 3
    /\ settings.mode = "Normal"
    /\ twin.mode = "DebugPressure"
    /\ StepsIssued(twin.encoder) >= 1
    /\ Count(encoder, "draw_lines") = 1
    /\ Count(twin.encoder, "draw_texture") = 1

\* C12: an advect call samples only the current velocity texture, writes only
\* the other one and makes it current, so that get_velocity then returns the
\* texture just written; a diffuse call reads the current velocity, writes
\* only the divergence texture and leaves the current index alone; a read of
\* get_velocity changes nothing; the current index is always 0 or 1.
C12_VelocityPingPong ==
    [][LET before == fluid.velocity_textures
           after == fluid'.velocity_textures
           call == fluid_call'
       IN  /\ after.current \in {0, 1}
           /\ call.op = "advect" =>
                /\ call.reads = {before.current}
                /\ call.writes = 1 - before.current
                /\ after.textures[before.current] = before.textures[before.current]
                /\ after.textures[call.writes] =
                     Append(before.textures[before.current], call.timestep)
                /\ after.current = 1 - before.current
                /\ get_velocity(fluid') = call.writes
                /\ fluid'.divergence_texture = fluid.divergence_texture
           /\ call.op = "diffuse" =>
                /\ call.reads = {before.current}
                /\ after = before
                /\ fluid'.divergence_texture =
                     << -2, call.timestep >> \o before.textures[before.current]
           /\ call.op = "get_velocity" =>
                /\ call.returned = before.current
                /\ fluid' = fluid]_vars

\* C12 witness: after two advections and a divergence pass, get_velocity
\* returns texture 0, which holds the second advection's output.
C12_Witness ==
    /\ fluid # NoFluid
    /\ fluid_call # NoFluid
    /\ fluid_call.op = "get_velocity"
    /\ fluid_call.returned = 0
    /\ fluid.velocity_textures.textures[0] = << 0, 1, 2 >>
    /\ fluid.velocity_textures.textures[1] = << 0, 1 >>
    /\ fluid.divergence_texture = << -2, 1, 0, 1, 2 >>

\* The offset a tick adds: the one of the elapsed time after the tick.
TickOffset == NoiseOffset(elapsed_time')

\* The tick's incremented offset_1 is above the threshold.
TickBlends == line_uniforms.line_noise_offset_1 + TickOffset > BLEND_THRESHOLD

\* The tick's incremented blend factor exceeds 1.
TickResets ==
    TickBlends /\ line_uniforms.line_noise_blend_factor + BASE_OFFSET > OffsetScale

\* C13: in every state the blend factor is at least 0 and below 1.
C13_BlendInRange ==
    /\ line_uniforms.line_noise_blend_factor >= 0
    /\ line_uniforms.line_noise_blend_factor < OffsetScale

\* C13 witness: a tick has brought the blend factor to its last value below 1.
C13_Witness ==
    /\ frames >= 1
    /\ line_uniforms.line_noise_blend_factor + BASE_OFFSET > OffsetScale
    /\ line_uniforms.line_noise_offset_2 > 0

\* C14: a tick whose incremented blend factor exceeds 1 sets offset_1 to the
\* incremented offset_2, offset_2 to 0 and the blend factor to 0; any other
\* tick resets none of them: offset_1 grows by the offset, offset_2 and the
\* blend factor do not shrink.
C14_ResetAtomic ==
    [][IsTick =>
        IF TickResets
        THEN /\ line_uniforms'.line_noise_offset_1 =
                  line_uniforms.line_noise_offset_2 + TickOffset
             /\ line_uniforms'.line_noise_offset_2 = 0
             /\ line_uniforms'.line_noise_blend_factor = 0
        ELSE /\ line_uniforms'.line_noise_offset_1 =
                  line_uniforms.line_noise_offset_1 + TickOffset
             /\ line_uniforms'.line_noise_offset_2 >= line_uniforms.line_noise_offset_2
             /\ line_uniforms'.line_noise_blend_factor >=
                  line_uniforms.line_noise_blend_factor
             /\ line_uniforms.line_noise_blend_factor > 0 =>
                  line_uniforms'.line_noise_blend_factor > 0]_vars

\* C14 witness: a tick has reset the crossfade: offset_1 restarted from what
\* offset_2 had accumulated, about a quarter of the threshold.
C14_Witness ==
    /\ frames >= 1
    /\ line_uniforms.line_noise_blend_factor = 0
    /\ line_uniforms.line_noise_offset_2 = 0
    /\ line_uniforms.line_noise_offset_1 > OffsetScale - OffsetScale \div 4
    /\ line_uniforms.line_noise_offset_1 < OffsetScale + OffsetScale \div 4

\* C15: in every state offset_1 <= 4.0 implies offset_2 = 0 and a blend
\* factor of 0; a tick whose incremented offset_1 is above 4.0 adds
\* BASE_OFFSET to the blend factor and to offset_2 the offset it adds to
\* offset_1 (the sums being what a reset in the same call then copies and
\* clears); any other tick leaves offset_2 and the blend factor alone.
C15_AccumulateAboveThreshold ==
    /\ [](line_uniforms.line_noise_offset_1 <= BLEND_THRESHOLD =>
            /\ line_uniforms.line_noise_offset_2 = 0
            /\ line_uniforms.line_noise_blend_factor = 0)
    /\ [][IsTick =>
            /\ (TickBlends /\ ~TickResets) =>
                 /\ line_uniforms'.line_noise_blend_factor =
                      line_uniforms.line_noise_blend_factor + BASE_OFFSET
                 /\ line_uniforms'.line_noise_offset_2 - line_uniforms.line_noise_offset_2
                      = line_uniforms'.line_noise_offset_1 - line_uniforms.line_noise_offset_1
                 /\ line_uniforms'.line_noise_offset_2 =
                      line_uniforms.line_noise_offset_2 + TickOffset
            /\ TickResets =>
                 line_uniforms'.line_noise_offset_1 =
                   line_uniforms.line_noise_offset_2 + TickOffset
            /\ ~TickBlends =>
                 /\ line_uniforms'.line_noise_offset_2 = line_uniforms.line_noise_offset_2
                 /\ line_uniforms'.line_noise_blend_factor =
                      line_uniforms.line_noise_blend_factor]_vars

\* C15 witness: the tick in which offset_1 first passed the threshold.
C15_Witness ==
    /\ frames >= 1
    /\ line_uniforms.line_noise_offset_1 > BLEND_THRESHOLD
    /\ line_uniforms.line_noise_blend_factor = BASE_OFFSET
    /\ line_uniforms.line_noise_offset_2 > 0
    /\ line_uniforms.line_noise_offset_2 < 2 * BASE_OFFSET

\* A buffer holds one zeroed LineState per line of the grid and nothing else.
ZeroedFor(buffer, g) ==
    /\ DOMAIN buffer = 1..g.line_count
    /\ \A c \in DOMAIN buffer : buffer[c] = ZeroLineState

\* C16: after a resize, whatever was placed before, the grid is the one
\* Grid::new gives for the clamped size, and both line-state buffers hold
\* line_count zeroed entries.
C16_ResizeZeroesLineState ==
    [][\A size \in LogicalSizes :
         resize(size[1], size[2]) =>
           LET clamped == clamp_logical_size(size[1], size[2])
           IN  /\ grid' = GridNew(clamped[1], clamped[2], drawer_settings.grid_spacing)
               /\ \A b \in {0, 1} : ZeroedFor(line_state_buffers'.buffers[b], grid')]_vars

\* C16 witness: lines were placed three times, then a resize to the large
\* grid left both buffers zeroed.
C16_Witness ==
    /\ frames = 3
    /\ encoder = <<>>
    /\ line_state_buffers.active_buffer = 1
    /\ logical_size = <<1600, 800>>
    /\ grid.line_count = 6
    /\ \A b \in {0, 1} : ZeroedFor(line_state_buffers.buffers[b], grid)

\* C19: the grid has at least one column and one row, line_count is their
\* product, there are two basepoint coordinates and one line state per line.
C19_GridCounts ==
    grid # NoGrid =>
        /\ grid.columns >= 1
        /\ grid.rows >= 1
        /\ grid.line_count = grid.columns * grid.rows
        /\ DOMAIN grid.basepoints = 1..(2 * grid.line_count)
        /\ DOMAIN grid.line_state = 1..grid.line_count

\* C19 witness: Grid::new for a viewport narrower than the grid spacing, and
\* for an empty one.
C19_Witness ==
    /\ grid # NoGrid
    /\ logical_size \in {<<2, 9>>, <<0, 0>>}
    /\ drawer_settings.grid_spacing = 3
    /\ grid.line_count = 1

\* (width, height, columns, rows) of the claim, for a spacing of 15.
GridTable ==
    {<<414, 896, 28, 59>>, <<390, 844, 27, 57>>, <<1280, 800, 86, 54>>,
     <<1440, 900, 97, 61>>, <<3840, 1600, 257, 107>>, <<7680, 1440, 513, 97>>}

\* C20: the grid is a function of (width, height, grid_spacing):
\* columns = floor(width / spacing) + 1 and
\* rows = floor((height / width) * floor(width / spacing)) + 1, the latter in
\* single precision, which is within one of the exact value; with a spacing
\* of 15 the sizes of the table give the columns and rows of the table.
C20_GridFunction ==
    LET width == logical_size[1]
        height == logical_size[2]
        spacing == drawer_settings.grid_spacing
        floored == width \div spacing
    IN  grid # NoGrid =>
          /\ grid = GridNew(width, height, spacing)
          /\ grid.columns = floored + 1
          /\ width > 0 =>
               /\ grid.rows = F32MulFloor(F32Div(height, width), floored) + 1
               /\ grid.rows - ((height * floored) \div width + 1) \in {-1, 0, 1}
          /\ \A e \in GridTable :
               (width = e[1] /\ height = e[2] /\ spacing = 15) =>
                  (grid.columns = e[3] /\ grid.rows = e[4])

\* C20 witness: the grid of the largest size of the table has been built.
C20_Witness ==
    /\ grid # NoGrid
    /\ logical_size = <<7680, 1440>>
    /\ drawer_settings.grid_spacing = 15
    /\ grid.columns = 513
    /\ grid.rows = 97
    /\ grid.line_count = 513 * 97

\* C17 (as claimed): after a resize the fluid field is the one constructed
\* for the scaling ratio of the new grid, with none of its prior content.
C17_ResizeReinitializesFluid ==
    [][\A size \in LogicalSizes :
         resize(size[1], size[2]) =>
           fluid_context' = FluidContextNew(grid'.scaling_ratio)]_vars

\* C18: a resize leaves the channel offsets of the noise generator, the
\* clock and the crossfade values of the line uniforms as they were.
C18_ResizeKeepsTime ==
    [][\A size \in LogicalSizes :
         resize(size[1], size[2]) =>
           /\ noise_generator'.offsets = noise_generator.offsets
           /\ last_timestamp' = last_timestamp
           /\ elapsed_time' = elapsed_time
           /\ fluid_frame_time' = fluid_frame_time
           /\ Crossfade(line_uniforms') = Crossfade(line_uniforms)]_vars

\* C18 witness: three ticks ran fixed steps and placed lines, then a resize
\* zeroed the line state and kept the offsets, the clock and the crossfade.
C18_Witness ==
    /\ frames = 3
    /\ encoder = <<>>
    /\ \A b \in {0, 1} : ZeroedFor(line_state_buffers.buffers[b], grid)
    /\ noise_generator.offsets = << 3, 9 >>
    /\ fluid_context.steps = 3
    /\ elapsed_time = 4
    /\ fluid_frame_time = 1
    /\ line_uniforms.line_noise_offset_1 >= 3 * BASE_OFFSET

\* ------------------------------------------------- clamp_logical_size alone

\* Largest side of the small viewports given to clamp_logical_size.
MaxClampSide == 100

\* Arguments given to clamp_logical_size: those of the tests, every small
\* viewport, and viewports with one or both sides at or above the minimum.
ClampInputs ==
    {<<414, 896>>, <<390, 844>>, <<1280, 800>>, <<7680, 1440>>}
    \cup ((1..MaxClampSide) \X (1..MaxClampSide))
    \cup ({799, 800, 801, 1600} \X {1, 400, 799, 800, 801})

\* One Flux as main() of the desktop application constructs it, its fluid
\* field, noise generator and host not followed.
InitOne ==
    /\ InitFlux
    /\ settings.mode = "Normal"
    /\ settings.fluid_timestep = 1
    /\ logical_size = <<1600, 800>>
    /\ twin = NoTwin
    /\ fluid = NoFluid
    /\ fluid_call = NoFluid
    /\ fluid_context = NoFields
    /\ noise_generator = NoFields

\* The arguments of a call of clamp_logical_size, before the call.
InitClamp ==
    /\ InitOne
    /\ \E input \in ClampInputs : free_call = [args |-> input, result |-> Unused]
    /\ physical_size = Unused
    /\ pc = Unused
    /\ uniform_source = Unused
    /\ basepoint_buffer = Unused
    /\ color_texture = Unused
    /\ color_mode = Unused
    /\ outcome = Unused
    /\ event_loop = Unused

\* clamp_logical_size(width, height)
clamp ==
    /\ free_call.result = Unused
    /\ free_call' = [free_call EXCEPT
                       !.result = clamp_logical_size(free_call.args[1], free_call.args[2])]
    /\ UNCHANGED <<flux, twin, fluid, fluid_call, fluid_context, noise_generator,
                   pc, uniform_source, physical_size, basepoint_buffer, color_texture, color_mode, outcome,
                   event_loop>>

SpecClamp == InitClamp /\ [][clamp]_vars

\* C21 (as claimed): the smaller side of the clamped size is at least 800,
\* both sides are the floors of the arguments times one common factor, a
\* viewport with both sides at least 800 is returned as it is, and the sizes
\* of the tests give the results of the tests.
C21_ClampAtLeastMinimum ==
    free_call.result # Unused =>
        LET width == free_call.args[1]
            height == free_call.args[2]
            clamped == free_call.result
        IN  /\ Min(clamped[1], clamped[2]) >= 800
            /\ clamped[1] * height < (clamped[2] + 1) * width
            /\ clamped[2] * width < (clamped[1] + 1) * height
            /\ (width >= 800 /\ height >= 800) => clamped = <<width, height>>
            /\ free_call.args = <<414, 896>> => clamped = <<800, 1731>>
            /\ free_call.args = <<390, 844>> => clamped = <<800, 1731>>
            /\ free_call.args = <<1280, 800>> => clamped = <<1280, 800>>
            /\ free_call.args = <<7680, 1440>> => clamped = <<7680, 1440>>

\* -------------------------------------------------------- the Drawer alone

\* Sizes of the images that image::load_from_memory decodes.
Images ==
    {<<500, 600>>, <<1280, 800>>, <<200, 3000>>}

\* Bytes that image::load_from_memory does not decode.
Undecodable == <<>>

\* Option::None
None == <<>>

\* DynamicImage::resize(nwidth, nheight, filter): the largest size of the
\* same aspect ratio within nwidth x nheight, each side rounded and at least 1.
image_resize(img, nwidth, nheight) ==
    LET width == img[1]
        height == img[2]
    IN  IF nwidth * height <= nheight * width
        THEN << nwidth, Max((2 * height * nwidth + width) \div (2 * width), 1) >>
        ELSE << Max((2 * width * nheight + height) \div (2 * height), 1), nheight >>

\* LineUniforms::color_scheme_to_mode
color_scheme_to_mode(color_scheme) == IF color_scheme = "Peacock" THEN 0 ELSE 1

\* Settings given to Drawer::update: another grid spacing, another colour
\* scheme.
DrawerSettings ==
    {[mode |-> "Normal", fluid_timestep |-> 1, grid_spacing |-> 800,
      color_scheme |-> "Peacock"],
     [mode |-> "Normal", fluid_timestep |-> 1, grid_spacing |-> 400,
      color_scheme |-> "Plasma"]}

\* Drawer::set_color_texture.  unwrap() panics on bytes that do not decode;
\* Framebuffer::new and with_data return early with an error; otherwise the
\* texture is stored and color_mode becomes 1.
set_color_texture(encoded_bytes, allocated) ==
    /\ outcome # "Panic"
    /\ IF encoded_bytes = Undecodable
       THEN /\ outcome' = "Panic"
            /\ UNCHANGED <<color_texture, color_mode>>
       ELSE LET img == IF Max(encoded_bytes[1], encoded_bytes[2]) > 640
                       THEN image_resize(encoded_bytes, 640, 400)
                       ELSE encoded_bytes
            IN  IF allocated
                THEN /\ color_texture' = [width |-> img[1], height |-> img[2]]
                     /\ color_mode' = 1
                     /\ outcome' = "Ok"
                ELSE /\ outcome' = "Err"
                     /\ UNCHANGED <<color_texture, color_mode>>
    /\ UNCHANGED <<flux, twin, fluid, fluid_call, fluid_context, noise_generator,
                   free_call, pc, uniform_source, physical_size, basepoint_buffer, event_loop>>

\* Drawer::resize.  The sizes are stored and the basepoint buffer is
\* overwritten before overwrite_buffer, whose failure returns early: the grid
\* and the line uniforms are then the old ones, and the line-state buffers
\* are overwritten up to the one that failed.
drawer_resize(width, height, physical_width, physical_height, overwritten) ==
    LET size == clamp_logical_size(width, height)
        built == GridNew(size[1], size[2], drawer_settings.grid_spacing)
    IN  /\ outcome # "Panic"
        /\ physical_size' = <<physical_width, physical_height>>
        /\ logical_size' = size
        /\ basepoint_buffer' = built.basepoints
        /\ IF overwritten = 2
           THEN /\ line_state_buffers' =
                     overwrite_buffer(line_state_buffers, built.line_state)
                /\ grid' = built
                /\ line_uniforms' = line_uniforms_update(line_uniforms, size, drawer_settings)
                /\ uniform_source' = << size, drawer_settings >>
                /\ color_mode' = color_scheme_to_mode(drawer_settings.color_scheme)
                /\ outcome' = "Ok"
           ELSE /\ line_state_buffers' =
                     [line_state_buffers EXCEPT !.buffers =
                        [i \in {0, 1} |-> IF i < overwritten THEN built.line_state
                                          ELSE line_state_buffers.buffers[i]]]
                /\ outcome' = "Err"
                /\ UNCHANGED <<grid, line_uniforms, uniform_source, color_mode>>
        /\ encoder' = <<>>
        /\ UNCHANGED <<settings, clock, drawer_settings, frames, twin, fluid, fluid_call,
                       fluid_context, noise_generator, free_call, color_texture,
                       event_loop, pc>>

\* Drawer::update: the line uniforms are derived anew from new_settings, which
\* are not stored in Drawer::settings.
drawer_update(new_settings) ==
    /\ outcome # "Panic"
    /\ line_uniforms' = line_uniforms_update(line_uniforms, logical_size, new_settings)
    /\ uniform_source' = << logical_size, new_settings >>
    /\ color_mode' = color_scheme_to_mode(new_settings.color_scheme)
    /\ encoder' = <<>>
    /\ UNCHANGED <<settings, clock, drawer_settings, logical_size, grid,
                   line_state_buffers, frames, twin, fluid, fluid_call, fluid_context,
                   noise_generator, free_call, physical_size, basepoint_buffer,
                   color_texture, outcome, event_loop, pc>>

\* Drawer::new for the Flux of main(): no color texture, the color mode of
\* the Peacock scheme.
InitDrawer ==
    /\ InitOne
    /\ free_call = Unused
    /\ physical_size = logical_size
    /\ basepoint_buffer = grid.basepoints
    /\ color_texture = None
    /\ color_mode = color_scheme_to_mode(settings.color_scheme)
    /\ uniform_source = << logical_size, settings >>
    /\ outcome = "Ok"
    /\ event_loop = Unused
    /\ pc = Unused

NextDrawer ==
    \/ \E encoded_bytes \in Images \cup {Undecodable}, allocated \in BOOLEAN :
         set_color_texture(encoded_bytes, allocated)
    \/ \E size \in LogicalSizes, overwritten \in 0..2 :
         drawer_resize(size[1], size[2], size[1], size[2], overwritten)
    \/ \E new_settings \in DrawerSettings : drawer_update(new_settings)
    \/ \E timestamp \in Timestamps :
         /\ outcome # "Panic"
         /\ timestamp > last_timestamp
         /\ animate(timestamp)
         /\ UNCHANGED aux

SpecDrawer == InitDrawer /\ [][NextDrawer]_vars

\* C22 (as claimed): the color texture, once uploaded, is at most 640 wide
\* and at most 400 high.
C22_TextureWithinBounds ==
    color_texture # None => (color_texture.width <= 640 /\ color_texture.height <= 400)

\* C23 (as claimed): set_color_texture on bytes that do not decode ends with
\* an error value, not a panic, and leaves color_texture and color_mode as
\* they were.
C23_UndecodableIsError ==
    [][\A allocated \in BOOLEAN :
         set_color_texture(Undecodable, allocated) =>
           /\ outcome' = "Err"
           /\ color_texture' = color_texture
           /\ color_mode' = color_mode]_vars

\* The line-state buffers, grid, basepoint buffer and sizes are those of one
\* viewport.
OneSetOfDimensions ==
    /\ grid = GridNew(logical_size[1], logical_size[2], drawer_settings.grid_spacing)
    /\ basepoint_buffer = grid.basepoints
    /\ \A b \in {0, 1} : DOMAIN line_state_buffers.buffers[b] = 1..grid.line_count

\* C24 (as claimed): after a Drawer::resize that returned an error, the
\* sizes, the grid, the basepoint buffer and the line-state buffers are still
\* those of one viewport, the one of before the call.
C24_FailedResizeKeepsAll ==
    [][\A size \in LogicalSizes, overwritten \in 0..1 :
         (OneSetOfDimensions /\ drawer_resize(size[1], size[2], size[1], size[2], overwritten))
           => /\ OneSetOfDimensions'
              /\ UNCHANGED <<physical_size, logical_size, grid, basepoint_buffer>>]_vars

\* ------------------------------------------------- the desktop event loop

\* Mutant: the loop hands an event to the closure while a call is running.
DispatchableAnytime == TRUE

\* event_loop.run(closure): the loop calls the closure for one event at a
\* time and for the next one only when the call has returned.
Dispatchable == event_loop.handler = "idle"

\* The first statement of the closure, *control_flow = WaitUntil(...): once
\* Exit, the loop's control flow stays Exit whatever the closure assigns.
Entered(loop) ==
    [loop EXCEPT !.control_flow = IF @ = "Exit" THEN "Exit" ELSE "WaitUntil"]

\* main() up to event_loop.run: the Flux is constructed, no event handled.
InitDesktop ==
    /\ InitOne
    /\ free_call = Unused
    /\ physical_size = Unused
    /\ pc = Unused
    /\ uniform_source = Unused
    /\ basepoint_buffer = Unused
    /\ color_texture = Unused
    /\ color_mode = Unused
    /\ outcome = Unused
    /\ event_loop = [control_flow |-> "Poll", phase |-> "events", handler |-> "idle",
                     redraw |-> FALSE, size |-> logical_size]

\* Event::MainEventsCleared => window.window().request_redraw()
MainEventsCleared ==
    /\ Dispatchable
    /\ event_loop.phase = "events"
    /\ event_loop' = [Entered(event_loop) EXCEPT !.phase = "redraw", !.redraw = TRUE]
    /\ UNCHANGED flux

\* Event::RedrawRequested => flux.animate(start.elapsed()), first half: the
\* timestamp never decreases; Flux::animate starts with Flux::compute.
RedrawRequested(timestamp) ==
    /\ Dispatchable
    /\ event_loop.phase = "redraw"
    /\ event_loop.redraw
    /\ timestamp >= last_timestamp
    /\ compute(timestamp)
    /\ event_loop' = [Entered(event_loop) EXCEPT !.redraw = FALSE, !.handler = "render"]

\* Flux::animate, second half: Flux::render.
animate_render ==
    /\ event_loop.handler = "render"
    /\ render
    /\ event_loop' = [event_loop EXCEPT !.handler = "swap_buffers"]

\* window.swap_buffers().unwrap(), the end of the RedrawRequested arm.
swap_buffers ==
    /\ event_loop.handler = "swap_buffers"
    /\ event_loop' = [event_loop EXCEPT !.handler = "idle"]
    /\ UNCHANGED flux

\* The end of an iteration of the loop: with Exit it sends LoopDestroyed and
\* stops, otherwise it waits for the events of the next iteration.
RedrawEventsCleared ==
    /\ Dispatchable
    /\ event_loop.phase = "redraw"
    /\ event_loop' = [Entered(event_loop) EXCEPT
                        !.phase = IF event_loop.control_flow = "Exit"
                                  THEN "destroyed" ELSE "events",
                        !.redraw = FALSE]
    /\ UNCHANGED flux

\* WindowEvent::Resized(physical_size), first half: window.resize.
Resized(size) ==
    /\ Dispatchable
    /\ event_loop.phase = "events"
    /\ event_loop' = [Entered(event_loop) EXCEPT !.handler = "flux.resize", !.size = size]
    /\ UNCHANGED flux

\* WindowEvent::Resized, second half: flux.resize(...)
flux_resize ==
    /\ event_loop.handler = "flux.resize"
    /\ resize(event_loop.size[1], event_loop.size[2])
    /\ event_loop' = [event_loop EXCEPT !.handler = "idle"]

\* WindowEvent::CloseRequested => *control_flow = ControlFlow::Exit
CloseRequested ==
    /\ Dispatchable
    /\ event_loop.phase = "events"
    /\ event_loop' = [event_loop EXCEPT !.control_flow = "Exit"]
    /\ UNCHANGED flux

\* Event::LoopDestroyed => return.  With Exit the loop may stop before the
\* end of the iteration.
LoopDestroyed ==
    /\ Dispatchable
    /\ event_loop.phase # "destroyed"
    /\ event_loop.control_flow = "Exit"
    /\ event_loop' = [event_loop EXCEPT !.phase = "destroyed"]
    /\ UNCHANGED flux

HostKept ==
    UNCHANGED <<twin, fluid, fluid_call, fluid_context, noise_generator, free_call,
                pc, uniform_source, physical_size, basepoint_buffer, color_texture, color_mode, outcome>>

NextDesktop ==
    \/ MainEventsCleared /\ HostKept
    \/ \E timestamp \in Timestamps : RedrawRequested(timestamp) /\ HostKept
    \/ animate_render /\ HostKept
    \/ swap_buffers /\ HostKept
    \/ RedrawEventsCleared /\ HostKept
    \/ \E size \in LogicalSizes : Resized(size) /\ HostKept
    \/ flux_resize /\ HostKept
    \/ CloseRequested /\ HostKept
    \/ LoopDestroyed /\ HostKept

SpecDesktop == InitDesktop /\ [][NextDesktop]_vars

\* C25 (as claimed): once CloseRequested has been handled, which leaves the
\* control flow at Exit, no flux.animate is started.
C25_NoTickAfterClose ==
    [][\A timestamp \in Timestamps :
         RedrawRequested(timestamp) => event_loop.control_flow # "Exit"]_vars

\* C26: a tick, once started, is followed by its render and its
\* swap_buffers with the sizes and the grid it started with, and no event is
\* handled until then; a resize, once its event is handled, is followed by
\* flux.resize, which records no command; a resize starts and a tick starts
\* only when no call is running.
C26_HandlersRunToCompletion ==
    [][/\ event_loop.handler = "render" =>
            (event_loop'.handler = "swap_buffers" /\ UNCHANGED <<logical_size, grid>>)
       /\ event_loop.handler = "swap_buffers" =>
            (event_loop'.handler = "idle" /\ UNCHANGED <<logical_size, grid, encoder>>)
       /\ event_loop.handler = "flux.resize" =>
            (event_loop'.handler = "idle" /\ encoder' = <<>> /\ frames' = frames)
       /\ event_loop'.handler \in {"render", "flux.resize"} =>
            event_loop.handler = "idle"
       /\ event_loop.handler # "idle" =>
            (event_loop'.phase = event_loop.phase /\
             event_loop'.control_flow = event_loop.control_flow)]_vars

\* C26 witness: a second tick is at its swap_buffers, on the grid that a
\* resize between the two ticks built.
C26_Witness ==
    /\ frames = 2
    /\ event_loop.handler = "swap_buffers"
    /\ logical_size = <<800, 800>>
    /\ grid.line_count = 4
    /\ encoder # <<>>

\* The one position of a command of fixed step k in a command list.
PositionOf(enc, op, k) == CHOOSE i \in DOMAIN enc : enc[i].op = op /\ enc[i].step = k

\* C27: in a tick that runs n fixed steps every channel's offset advances by
\* n * offset_increment * fluid_timestep, whatever the other channels', and
\* not at all if n = 0; each step holds one update_buffers, issued before
\* its generate, which is issued before all its fluid stages; and as long as
\* fluid_timestep is the one of all steps so far, the offset is (number of
\* fixed steps) * offset_increment * fluid_timestep.
C27_OffsetsAdvancePerStep ==
    [][IsTick =>
         LET n == StepsIssued(encoder')
         IN  /\ \A c \in DOMAIN NoiseIncrements :
                  /\ noise_generator'.offsets[c] =
                       noise_generator.offsets[c]
                         + n * NoiseIncrements[c] * settings.fluid_timestep
                  /\ noise_generator.offsets[c] =
                         fluid_context.steps * NoiseIncrements[c] * settings.fluid_timestep
                       => noise_generator'.offsets[c] =
                            fluid_context'.steps * NoiseIncrements[c]
                              * settings'.fluid_timestep
             /\ n = 0 => noise_generator' = noise_generator
             /\ fluid_context'.steps = fluid_context.steps + n
             /\ \A k \in 1..n :
                  /\ Cardinality({i \in DOMAIN encoder' :
                          encoder'[i].op = "update_buffers" /\ encoder'[i].step = k}) = 1
                  /\ PositionOf(encoder', "update_buffers", k)
                       < PositionOf(encoder', "generate", k)
                  /\ \A i \in DOMAIN encoder' :
                       (encoder'[i].step = k
                          /\ encoder'[i].op \notin {"update_buffers", "generate"})
                         => PositionOf(encoder', "generate", k) < i]_vars

\* C27 witness: one fixed step at a fluid_timestep of 1 unit, and after an
\* update one at 3 units, have advanced the two channels by 4 times their
\* increments.
C27_Witness ==
    /\ frames = 3
    /\ fluid_context.steps = 2
    /\ settings.fluid_timestep = 3
    /\ noise_generator.offsets = << 4, 12 >>
    /\ StepsIssued(encoder) = 1

\* C27 (as claimed): over any run each channel's offset is (number of fixed
\* steps executed) * offset_increment * fluid_timestep.
C27_OffsetsClosedForm ==
    \A c \in DOMAIN NoiseIncrements :
        noise_generator.offsets[c] =
            fluid_context.steps * NoiseIncrements[c] * settings.fluid_timestep

\* Two coordinates n * (1.0 / d), each kept as <<n, d>>, are the same number:
\* with d = 0 the coordinate is infinite or NaN and equal to none.
SameCoordinate(p, q) ==
    /\ p[2] # 0
    /\ q[2] # 0
    /\ p[1] = q[1]
    /\ (p[1] = 0 \/ p[2] = q[2])

\* C28: the basepoints are in row-major order, two coordinates per cell, and
\* the cell in column u, row v has the basepoint (u * 1/(columns - 1),
\* v * 1/(rows - 1)), columns and rows being the counts of the grid: the
\* spacing is the reciprocal of the floored count, one less than the count.
C28_BasepointsRowMajor ==
    grid # NoGrid =>
        /\ DOMAIN grid.basepoints = 1..(2 * grid.rows * grid.columns)
        /\ \A v \in 0..(grid.rows - 1) : \A u \in 0..(grid.columns - 1) :
             LET cell == v * grid.columns + u
             IN  /\ grid.basepoints[2 * cell + 1] = << u, grid.columns - 1 >>
                 /\ grid.basepoints[2 * cell + 2] = << v, grid.rows - 1 >>

\* C28 witness: the grid of the 414x896 viewport of the tests; the last
\* cell of row 0 is at 27/27 and the first cell of row 1 at 0 and 1/58.
C28_Witness ==
    /\ grid # NoGrid
    /\ logical_size = <<414, 896>>
    /\ grid.columns = 28
    /\ grid.rows = 59
    /\ grid.basepoints[55] = <<27, 27>>
    /\ grid.basepoints[57] = <<0, 27>>
    /\ grid.basepoints[58] = <<1, 58>>

\* C28 (as claimed): the cell in column u, row v has the basepoint
\* (u * 1/columns, v * 1/rows) for the counts of the resulting grid.
C28_BasepointsByCounts ==
    grid # NoGrid =>
        \A v \in 0..(grid.rows - 1) : \A u \in 0..(grid.columns - 1) :
            LET cell == v * grid.columns + u
            IN  /\ SameCoordinate(grid.basepoints[2 * cell + 1], << u, grid.columns >>)
                /\ SameCoordinate(grid.basepoints[2 * cell + 2], << v, grid.rows >>)

\* C29: an update leaves the line-state buffers, the active buffer index,
\* the crossfade values, the grid and the clock as they were, and takes the
\* new settings.
C29_UpdateKeepsState ==
    [][\A new_settings \in TwinSettings :
         update(new_settings) =>
           /\ settings' = new_settings
           /\ line_state_buffers'.buffers = line_state_buffers.buffers
           /\ line_state_buffers'.active_buffer = line_state_buffers.active_buffer
           /\ Crossfade(line_uniforms') = Crossfade(line_uniforms)
           /\ grid' = grid
           /\ last_timestamp' = last_timestamp
           /\ elapsed_time' = elapsed_time
           /\ fluid_frame_time' = fluid_frame_time]_vars

\* C29 witness: after two ticks an update to a fluid_timestep of 3 units
\* has left the placed lines, the crossfade and the clock in place.
C29_Witness ==
    /\ frames = 2
    /\ encoder = <<>>
    /\ settings.fluid_timestep = 3
    /\ fluid_context.steps = 2
    /\ elapsed_time = 2
    /\ line_uniforms.line_noise_offset_1 >= 2 * BASE_OFFSET
    /\ \E b \in {0, 1} : ~ZeroedFor(line_state_buffers.buffers[b], grid)

\* ------------------------------------------- Flux::compute, step by step

\* Values Settings::fluid_timestep can hold, in units: it is an f32 read from
\* the settings without a check, so negative values and zero are among them.
AnyFluidTimesteps == {-1, 0, 1, 3}

\* The accumulator at which adding to it no longer changes it: an f32 sum
\* stops growing once the addend is below half its last binary digit.
MaxFrameTime == 6

\* Flux::new for the Flux of main(); no compute call is running.
InitLoop ==
    /\ InitOne
    /\ free_call = Unused
    /\ physical_size = Unused
    /\ basepoint_buffer = Unused
    /\ color_texture = Unused
    /\ color_mode = Unused
    /\ uniform_source = Unused
    /\ outcome = Unused
    /\ event_loop = Unused
    /\ pc = [at |-> "idle", timestep |-> 0]

LoopKept ==
    UNCHANGED <<twin, fluid, fluid_call, fluid_context, noise_generator, free_call,
                physical_size, basepoint_buffer, color_texture, color_mode,
                uniform_source, outcome, event_loop>>

\* Flux::compute up to the while loop: the clock is advanced.
compute_begin(timestamp) ==
    LET timestep == Timestep(timestamp, last_timestamp)
    IN  /\ pc.at = "idle"
        /\ frames < MaxFrames
        /\ last_timestamp' = timestamp
        /\ elapsed_time' = WrapElapsed(elapsed_time + timestep)
        /\ fluid_frame_time' = Min(fluid_frame_time + timestep, MaxFrameTime)
        /\ encoder' = <<>>
        /\ pc' = [at |-> "while", timestep |-> timestep]
        /\ UNCHANGED <<settings, drawer, frames>>
        /\ LoopKept

\* One iteration of the while loop: the commands of a fixed step, then
\* self.fluid_frame_time -= self.settings.fluid_timestep.
while_iteration ==
    /\ pc.at = "while"
    /\ ContinueLoop(fluid_frame_time, settings.fluid_timestep)
    /\ encoder' = FixedStep(1)
    /\ fluid_frame_time' = Min(fluid_frame_time - settings.fluid_timestep, MaxFrameTime)
    /\ UNCHANGED <<settings, last_timestamp, elapsed_time, drawer, frames, pc>>
    /\ LoopKept

\* The loop condition is false: the line uniforms tick, the lines are placed
\* and the call returns.
while_exit ==
    /\ pc.at = "while"
    /\ ~ContinueLoop(fluid_frame_time, settings.fluid_timestep)
    /\ line_uniforms' = set_timestep(tick(line_uniforms, elapsed_time), pc.timestep)
    /\ line_state_buffers' = place_lines(line_state_buffers, grid.line_count)
    /\ encoder' = << PlaceLinesCmd(line_state_buffers) >>
    /\ frames' = frames + 1
    /\ pc' = [at |-> "idle", timestep |-> 0]
    /\ UNCHANGED <<settings, clock, drawer_settings, logical_size, grid>>
    /\ LoopKept

\* Flux::update between two calls, with any fluid_timestep.
update_timestep(fluid_timestep) ==
    /\ pc.at = "idle"
    /\ update([settings EXCEPT !.fluid_timestep = fluid_timestep])
    /\ pc' = pc
    /\ LoopKept

NextLoop ==
    \/ \E timestamp \in Timestamps : compute_begin(timestamp)
    \/ while_iteration
    \/ while_exit
    \/ \E fluid_timestep \in AnyFluidTimesteps : update_timestep(fluid_timestep)

\* The statements of a call run one after the other: an iteration that can
\* run does, and so does the exit.
SpecLoop ==
    InitLoop /\ [][NextLoop]_vars /\ WF_vars(while_iteration) /\ WF_vars(while_exit)

\* C31 (as claimed): every Flux::compute call that has reached its while
\* loop leaves it and returns, whatever fluid_timestep is.
C31_ComputeTerminates == (pc.at = "while") ~> (pc.at = "idle")

CrossfadeElapsedTimes == {0, 25 * UnitsPerSecond, 75 * UnitsPerSecond}

\* LineUniforms::new in the Drawer of a new Flux; only LineUniforms::tick is
\* called on it.
InitCrossfade ==
    /\ InitOne
    /\ settings.grid_spacing = 800
    /\ line_uniforms = LineUniformsNew
    /\ free_call = Unused
    /\ physical_size = Unused
    /\ basepoint_buffer = Unused
    /\ color_texture = Unused
    /\ color_mode = Unused
    /\ uniform_source = Unused
    /\ outcome = Unused
    /\ event_loop = Unused
    /\ pc = Unused

\* self.line_uniforms.tick(elapsed_time), for any elapsed_time
line_uniforms_tick(elapsed) ==
    /\ line_uniforms' = tick(line_uniforms, elapsed)
    /\ UNCHANGED <<settings, clock, drawer_settings, logical_size, grid,
                   line_state_buffers, encoder, frames, aux>>

NextCrossfade == \E elapsed \in CrossfadeElapsedTimes : line_uniforms_tick(elapsed)

SpecCrossfade == InitCrossfade /\ [][NextCrossfade]_vars

\* C33: whatever the elapsed times of the ticks, after every tick
\* line_noise_offset_1 is below 6.0 and line_noise_offset_2 below 2.0, and
\* after a tick that resets the crossfade line_noise_offset_1 is below 4.0.
C33_CrossfadeBounded ==
    [][/\ line_uniforms'.line_noise_offset_1 < 6 * OffsetScale
       /\ line_uniforms'.line_noise_offset_2 < 2 * OffsetScale
       /\ (line_uniforms.line_noise_blend_factor > 0
             /\ line_uniforms'.line_noise_blend_factor = 0)
            => line_uniforms'.line_noise_offset_1 < 4 * OffsetScale]_vars

\* C33 witness: a crossfade has just been reset after 667 blending ticks at
\* the largest perturbation: offset_1 took offset_2's 1.2006.
C33_Witness ==
    /\ line_uniforms.line_noise_blend_factor = 0
    /\ line_uniforms.line_noise_offset_2 = 0
    /\ line_uniforms.line_noise_offset_1 = 12006

\* C34 (as claimed): a Drawer::resize that succeeds derives the line uniforms
\* from the settings they were last derived from (those of Drawer::new or of
\* the last Drawer::update) and builds the grid with their grid_spacing.
C34_ResizeUsesUpdatedSettings ==
    [][\A size \in LogicalSizes :
         drawer_resize(size[1], size[2], size[1], size[2], 2) =>
           /\ uniform_source'[2] = uniform_source[2]
           /\ grid' = GridNew(logical_size'[1], logical_size'[2],
                              uniform_source[2].grid_spacing)]_vars

\* C35 (as claimed): while a color texture is bound, color_mode is 1.
C35_TextureImpliesColorMode == color_texture # None => color_mode = 1

\* C37 (as claimed): grid.line_count is the number of basepoint pairs (two
\* coordinates each) in the basepoint buffer and the number of LineState entries in each of the two
\* line-state buffers.
C37_LineCountMatchesBuffers ==
    /\ Len(basepoint_buffer) = 2 * grid.line_count
    /\ \A b \in {0, 1} : Len(line_state_buffers.buffers[b]) = grid.line_count

\* C36 (as claimed): whatever the viewport and the grid spacing, Grid::new
\* divides by no zero value (no divisor of a basepoint coordinate is zero) and
\* every basepoint coordinate is a finite number in [0, 1].
C36_BasepointsFinite ==
    grid # NoGrid =>
      \A i \in DOMAIN grid.basepoints :
        /\ grid.basepoints[i][2] # 0
        /\ 0 <= grid.basepoints[i][1]
        /\ grid.basepoints[i][1] <= grid.basepoints[i][2]

====
